---- MODULE Spec2Model ----
\* Model of the notebook multi_agent_ecosistem.ipynb: the termination
\* predicate, the read_txt tool, the custom speaker selection and the group
\* conversation they are plugged into.
\*
\* A Python str is modelled as a sequence of one-character strings, so that
\* str.lower(), the `in` substring test and == on names are computed and not
\* assumed.  The empty str "" and the empty list [] are both <<>>.
EXTENDS Integers, Sequences, FiniteSets, TLC

VARIABLES
    msg,            \* termination_message: the message dict passed as argument
    term_result,    \* termination_message: <<"return", value>> (<<>> before the call)
    messages,       \* groupchat.messages
    last_speaker,   \* name of the agent that produced the last message
    selected,       \* value returned by the last custom_speaker_selection call
    n_messages,     \* len(groupchat.messages)
    status,         \* position of the conversation: "init", "running", "ended"
    files,          \* the file system: path -> content
    path,           \* read_txt: the argument
    read_result,    \* read_txt: <<"return", value>> (<<>> before the call)
    recorded        \* chat_history against the run recorded in the notebook: the
                    \* number of its messages when it is the start of that run, else -1

vars == <<msg, term_result, messages, last_speaker, selected, n_messages,
          status, files, path, read_result, recorded>>

-----------------------------------------------------------------------------
\* Bounds

\* longest text put before and after the keyword in a message content
MaxPad == 1

\* longest transcript handed to custom_speaker_selection
MaxLen == 3

\* longest file content handed to read_txt
MaxFileLen == 4

\* number of messages of the transcript kept in messages: its last MaxHist
MaxHist == 3

-----------------------------------------------------------------------------
\* Python str and dict primitives

UPPER == <<"A", "B", "C", "D", "E", "F", "G", "H", "I", "J", "K", "L", "M",
           "N", "O", "P", "Q", "R", "S", "T", "U", "V", "W", "X", "Y", "Z">>

LOWER == <<"a", "b", "c", "d", "e", "f", "g", "h", "i", "j", "k", "l", "m",
           "n", "o", "p", "q", "r", "s", "t", "u", "v", "w", "x", "y", "z">>

\* str.lower() on one character
lower_char(c) ==
    IF \E i \in 1..26 : UPPER[i] = c
    THEN LOWER[CHOOSE i \in 1..26 : UPPER[i] = c]
    ELSE c

lower_identity(s) == s

\* str.lower()
lower(s) == [i \in 1..Len(s) |-> lower_char(s[i])]

\* sub in s
str_in(sub, s) ==
    \E i \in 0..(Len(s) - Len(sub)) : SubSeq(s, i + 1, i + Len(sub)) = sub

\* dict.get(key, default)
get(d, key, default) == IF key \in DOMAIN d THEN d[key] ELSE default

\* truth value of a str or a list
truthy(x) == x # <<>>

-----------------------------------------------------------------------------
\* 3 - Termination policy

terminate == <<"t", "e", "r", "m", "i", "n", "a", "t", "e">>

termination_message_exact(m) ==
    LET content == lower(get(m, "content", <<>>))
    IN  content = terminate

termination_message_nolower(m) ==
    LET content == get(m, "content", <<>>)
    IN  str_in(terminate, content)

termination_message(m) ==
    LET content == lower(get(m, "content", <<>>))
    IN  str_in(terminate, content)

-----------------------------------------------------------------------------
\* Inputs of termination_message

PadChars == {"x", " ", "T"}

RECURSIVE SeqsUpTo(_, _)
SeqsUpTo(S, n) ==
    IF n = 0 THEN {<<>>}
    ELSE LET shorter == SeqsUpTo(S, n - 1)
         IN  shorter \cup {Append(s, c) : s \in shorter, c \in S}

Pads == SeqsUpTo(PadChars, MaxPad)

\* the keyword in every mix of upper and lower case
CaseVariants ==
    {[i \in 1..Len(terminate) |-> IF up[i] THEN UPPER[CHOOSE k \in 1..26 : LOWER[k] = terminate[i]]
                                   ELSE terminate[i]] :
        up \in [1..Len(terminate) -> BOOLEAN]}

\* texts that are close to the keyword and are not it
NearMisses ==
    { <<>>,
      <<"C", "O", "N", "T", "I", "N", "U", "E">>,
      SubSeq(terminate, 1, 8),
      SubSeq(terminate, 2, 9),
      <<"T", "E", "R", "M", "I", " ", "N", "A", "T", "E">>,
      <<"t", "e", "r", "m", "i", "n", "e", "t", "a">> }

Contents == {p \o w \o q : p \in Pads, w \in CaseVariants \cup NearMisses, q \in Pads}

\* message dicts with and without the "content" key
TermInputs ==
    {[content |-> c] : c \in Contents}
    \cup {[name |-> <<"U", "s", "e", "r">>]}

-----------------------------------------------------------------------------
\* Specification of the calls of termination_message

NoFiles == [p \in {} |-> <<>>]

InitTermination ==
    /\ msg \in TermInputs
    /\ term_result = <<>>
    /\ messages = <<>>
    /\ last_speaker = <<>>
    /\ selected = <<>>
    /\ n_messages = 0
    /\ status = "init"
    /\ files = NoFiles
    /\ path = ""
    /\ read_result = <<>>
    /\ recorded = 0

CallTermination ==
    /\ term_result = <<>>
    /\ term_result' = <<"return", termination_message(msg)>>
    /\ UNCHANGED <<msg, messages, last_speaker, selected, n_messages, status,
                   files, path, read_result, recorded>>

NextTermination == CallTermination

SpecTermination == InitTermination /\ [][NextTermination]_vars

-----------------------------------------------------------------------------
\* the nine letters of the keyword stand at s[i+1..i+9], each in either case
KeywordAt(s, i) ==
    \A k \in 1..9 :
        \/ s[i + k] = terminate[k]
        \/ \E j \in 1..26 : LOWER[j] = terminate[k] /\ s[i + k] = UPPER[j]

ContainsKeywordAnyCase(s) == \E i \in 0..(Len(s) - 9) : KeywordAt(s, i)

\* C1: termination_message(msg) is true if and only if the text of msg
\* contains the nine letters t-e-r-m-i-n-a-t-e in a row, each in either case,
\* anywhere in the text (a msg without text counts as the empty text).
C1_TerminationIffKeyword ==
    term_result # <<>> =>
        (term_result = <<"return", ContainsKeywordAnyCase(get(msg, "content", <<>>))>>)

\* an upper-case keyword embedded in longer text was recognised
C1_Witness ==
    /\ term_result = <<"return", TRUE>>
    /\ "content" \in DOMAIN msg
    /\ Len(msg.content) > 9
    /\ ~ str_in(terminate, msg.content)

-----------------------------------------------------------------------------
\* 4 - Agents, 5 - Tools, 7 - the group chat

User == <<"U", "s", "e", "r">>

CVAnalyser == <<"C", "V", " ", "A", "n", "a", "l", "y", "s", "e", "r">>

SkillsExtractor ==
    <<"S", "k", "i", "l", "l", "s", " ", "E", "x", "t", "r", "a", "c", "t", "o", "r">>

CoursesRecommender ==
    <<"C", "o", "u", "r", "s", "e", "s", " ", "r", "e", "c", "o", "m", "m", "e", "n", "d", "e", "r">>

ResolutionChecker ==
    <<"R", "e", "s", "o", "l", "u", "t", "i", "o", "n", " ", "C", "h", "e", "c", "k", "e", "r", " ",
      "A", "g", "e", "n", "t">>

agents_without_checker == <<User, CVAnalyser, SkillsExtractor, CoursesRecommender>>

\* groupchat.agents: the agents, each stood for by its name
agents == <<User, CVAnalyser, SkillsExtractor, CoursesRecommender, ResolutionChecker>>

AgentNames == {agents[i] : i \in 1..Len(agents)}

Callers_with_checker == {CVAnalyser, CoursesRecommender, SkillsExtractor, ResolutionChecker}

\* the agents read_txt is registered for as caller
Callers == {CVAnalyser, CoursesRecommender, SkillsExtractor}

\* the agent read_txt is registered for as executor
Executor == User

-----------------------------------------------------------------------------
\* 6 - Agent order

\* None where a message dict is expected, and where a str is expected
NoneMsg == [none |-> TRUE]

NoneStr == <<"None">>

\* truth value of an optional message dict
truthy_msg(m) == m # NoneMsg /\ DOMAIN m # {}

\* truth value of an optional str
truthy_str(x) == x # NoneStr /\ x # <<>>

auto == <<"a", "u", "t", "o">>

next_agent_lowered(group, name) ==
    IF \E i \in 1..Len(group) : group[i] = lower(name)
    THEN <<"return", group[CHOOSE i \in 1..Len(group) :
                              /\ group[i] = lower(name)
                              /\ \A j \in 1..(i - 1) : group[j] # lower(name)]>>
    ELSE <<"raise", "StopIteration">>

\* next(agent for agent in groupchat.agents if agent.name == name)
next_agent(group, name) ==
    IF \E i \in 1..Len(group) : group[i] = name
    THEN <<"return", group[CHOOSE i \in 1..Len(group) :
                              /\ group[i] = name
                              /\ \A j \in 1..(i - 1) : group[j] # name]>>
    ELSE <<"raise", "StopIteration">>

agents_to_check_typo ==
    { <<"c", "v", " ", "a", "n", "a", "l", "y", "s", "e", "r">>,
      <<"s", "k", "i", "l", "l", "s", " ", "e", "x", "t", "r", "a", "c", "t", "o", "r">>,
      <<"c", "o", "u", "r", "s", "e", " ", "r", "e", "c", "o", "m", "m", "e", "n", "d", "e", "r">> }

agents_to_check ==
    { <<"c", "v", " ", "a", "n", "a", "l", "y", "s", "e", "r">>,
      <<"s", "k", "i", "l", "l", "s", " ", "e", "x", "t", "r", "a", "c", "t", "o", "r">>,
      <<"c", "o", "u", "r", "s", "e", "s", " ", "r", "e", "c", "o", "m", "m", "e", "n", "d", "e", "r">> }

not_called_back_user_only == { <<"u", "s", "e", "r">> }

not_called_back ==
    { <<"u", "s", "e", "r">>,
      <<"r", "e", "s", "o", "l", "u", "t", "i", "o", "n", " ", "c", "h", "e", "c", "k", "e", "r", " ",
        "a", "g", "e", "n", "t">> }

custom_speaker_selection_checker_first(speaker, group_messages, group_agents) ==
    LET n == Len(group_messages)
        last_message == group_messages[n]
        penultimate_message == IF n > 1 THEN group_messages[n - 1] ELSE NoneMsg
        last_speaker_name == lower(speaker)
        penultimate_speaker_name ==
            IF truthy_msg(penultimate_message) THEN penultimate_message["name"] ELSE NoneStr
    IN  IF last_speaker_name \in agents_to_check
        THEN next_agent(group_agents, ResolutionChecker)
        ELSE IF truthy(get(last_message, "tool_calls", <<>>))
        THEN next_agent(group_agents, User)
        ELSE IF /\ last_speaker_name = <<"u", "s", "e", "r">>
                /\ truthy_str(penultimate_speaker_name)
                /\ lower(penultimate_speaker_name) \notin not_called_back
        THEN next_agent(group_agents, penultimate_speaker_name)
        ELSE <<"return", auto>>

custom_speaker_selection_first_message(speaker, group_messages, group_agents) ==
    LET n == Len(group_messages)
        last_message == group_messages[n]
        penultimate_message == IF n > 1 THEN group_messages[1] ELSE NoneMsg
        last_speaker_name == lower(speaker)
        penultimate_speaker_name ==
            IF truthy_msg(penultimate_message) THEN penultimate_message["name"] ELSE NoneStr
    IN  IF truthy(get(last_message, "tool_calls", <<>>))
        THEN next_agent(group_agents, User)
        ELSE IF /\ last_speaker_name = <<"u", "s", "e", "r">>
                /\ truthy_str(penultimate_speaker_name)
                /\ lower(penultimate_speaker_name) \notin not_called_back
        THEN next_agent(group_agents, penultimate_speaker_name)
        ELSE IF last_speaker_name \in agents_to_check
        THEN next_agent(group_agents, ResolutionChecker)
        ELSE <<"return", auto>>

custom_speaker_selection(speaker, group_messages, group_agents) ==
    LET n == Len(group_messages)
        last_message == group_messages[n]
        penultimate_message == IF n > 1 THEN group_messages[n - 1] ELSE NoneMsg
        last_speaker_name == lower(speaker)
        penultimate_speaker_name ==
            IF truthy_msg(penultimate_message) THEN penultimate_message["name"] ELSE NoneStr
    IN  IF n = 0
        THEN <<"raise", "IndexError">>
        ELSE IF truthy_msg(penultimate_message) /\ "name" \notin DOMAIN penultimate_message
        THEN <<"raise", "KeyError">>
        ELSE IF truthy(get(last_message, "tool_calls", <<>>))
        THEN next_agent(group_agents, User)
        ELSE IF /\ last_speaker_name = <<"u", "s", "e", "r">>
                /\ truthy_str(penultimate_speaker_name)
                /\ lower(penultimate_speaker_name) \notin not_called_back
        THEN next_agent(group_agents, penultimate_speaker_name)
        ELSE IF last_speaker_name \in agents_to_check
        THEN next_agent(group_agents, ResolutionChecker)
        ELSE <<"return", auto>>

-----------------------------------------------------------------------------
\* Inputs of custom_speaker_selection

\* a tool call, as the path it asks read_txt to read
ToolCall(p) == [function |-> "read_txt", path |-> p]

\* the "tool_calls" entry of a message: several calls, one call, an empty list
ToolCallLists ==
    {<<ToolCall("data/cv.txt"), ToolCall("data/courses.txt")>>, <<ToolCall("data/cv.txt")>>, <<>>}

\* message dicts as groupchat.append leaves them: named after the speaker
SelMessages ==
    {[name |-> a, content |-> <<>>] : a \in AgentNames}
    \cup {[name |-> a, content |-> <<>>, tool_calls |-> tc] :
             a \in AgentNames, tc \in ToolCallLists}

RECURSIVE Transcripts(_)
Transcripts(n) ==
    IF n = 1 THEN {<<m>> : m \in SelMessages}
    ELSE LET shorter == Transcripts(n - 1)
         IN  shorter \cup {Append(t, m) : t \in {s \in shorter : Len(s) = n - 1},
                                          m \in SelMessages}

-----------------------------------------------------------------------------
\* Specification of the calls of custom_speaker_selection

InitSelection ==
    /\ messages \in Transcripts(MaxLen)
    /\ last_speaker = messages[Len(messages)].name
    /\ n_messages = Len(messages)
    /\ selected = <<>>
    /\ msg = NoneMsg
    /\ term_result = <<>>
    /\ status = "init"
    /\ files = NoFiles
    /\ path = ""
    /\ read_result = <<>>
    /\ recorded = 0

CallSelection ==
    /\ selected = <<>>
    /\ selected' = custom_speaker_selection(last_speaker, messages, agents)
    /\ UNCHANGED <<msg, term_result, messages, last_speaker, n_messages, status,
                   files, path, read_result, recorded>>

NextSelection == CallSelection

SpecSelection == InitSelection /\ [][NextSelection]_vars

\* what the selection looked at
LastMessage == messages[Len(messages)]

HasToolCall == "tool_calls" \in DOMAIN LastMessage /\ Len(LastMessage.tool_calls) > 0

HasPenultimate == Len(messages) > 1

PenultimateName == messages[Len(messages) - 1].name

TaskAgents == {CVAnalyser, SkillsExtractor, CoursesRecommender}

\* C2: whenever the last message carries a non-empty tool_calls entry, the
\* selection returns the agent named "User", whoever spoke last and before.
C2_ToolCallRoutesToUser ==
    (selected # <<>> /\ HasToolCall) => selected = <<"return", User>>

\* a task agent's message with two tool calls was routed to User and not to
\* the Resolution Checker Agent
C2_Witness ==
    /\ selected = <<"return", User>>
    /\ HasToolCall
    /\ Len(LastMessage.tool_calls) = 2
    /\ HasPenultimate
    /\ last_speaker = CoursesRecommender
    /\ PenultimateName = User

\* C4: no tool call, last speaker User, and a penultimate speaker that is
\* neither User nor Resolution Checker Agent: the selection returns the agent
\* of the group that has the penultimate speaker's name.
C4_UserRoutesBackToPenultimate ==
    ( /\ selected # <<>>
      /\ ~ HasToolCall
      /\ last_speaker = User
      /\ HasPenultimate
      /\ PenultimateName \notin {User, ResolutionChecker} )
    => ( /\ selected = <<"return", PenultimateName>>
         /\ PenultimateName \in AgentNames )

C4_Witness ==
    /\ selected = <<"return", SkillsExtractor>>
    /\ ~ HasToolCall
    /\ last_speaker = User
    /\ HasPenultimate
    /\ PenultimateName = SkillsExtractor

\* C5: no tool call and the last speaker is one of the three task agents: the
\* selection returns the agent named "Resolution Checker Agent".
C5_TaskAgentRoutesToChecker ==
    (selected # <<>> /\ ~ HasToolCall /\ last_speaker \in TaskAgents)
    => selected = <<"return", ResolutionChecker>>

\* the Courses recommender has answered a User message without a tool call
C5_Witness ==
    /\ selected = <<"return", ResolutionChecker>>
    /\ ~ HasToolCall
    /\ last_speaker = CoursesRecommender
    /\ HasPenultimate
    /\ PenultimateName = User

\* C6: the selection returns 'auto' exactly when no rule applies: no tool
\* call, the last speaker is no task agent, and not (last speaker User with a
\* penultimate speaker other than User and Resolution Checker Agent); so it
\* does after a one-message transcript of User and after a Resolution Checker
\* Agent message (neither carrying a tool call).
C6_AutoIffNoRule ==
    selected # <<>> =>
        /\ (selected = <<"return", auto>>) <=>
              ( /\ ~ HasToolCall
                /\ last_speaker \notin TaskAgents
                /\ ~ ( /\ last_speaker = User
                       /\ HasPenultimate
                       /\ PenultimateName \notin {User, ResolutionChecker} ) )
        /\ (Len(messages) = 1 /\ last_speaker = User /\ ~ HasToolCall)
              => selected = <<"return", auto>>
        /\ (last_speaker = ResolutionChecker /\ ~ HasToolCall)
              => selected = <<"return", auto>>

\* 'auto' after a Resolution Checker Agent turn that followed a task agent
C6_Witness ==
    /\ selected = <<"return", auto>>
    /\ last_speaker = ResolutionChecker
    /\ HasPenultimate
    /\ PenultimateName = CVAnalyser

-----------------------------------------------------------------------------
\* 5 - Tools: read_txt

CR == "\r"

LF == "\n"

\* what reading a file opened in text mode ("r") does to its line endings:
\* "\r\n" and a lone "\r" are both handed over as "\n"
RECURSIVE translate_newlines(_)
translate_newlines(data) ==
    IF data = <<>> THEN <<>>
    ELSE IF Head(data) = CR
         THEN IF Len(data) > 1 /\ data[2] = LF
              THEN <<LF>> \o translate_newlines(SubSeq(data, 3, Len(data)))
              ELSE <<LF>> \o translate_newlines(Tail(data))
         ELSE <<Head(data)>> \o translate_newlines(Tail(data))

\* file.readline(): the text up to and including the first line ending
readline(text) ==
    IF \E i \in 1..Len(text) : text[i] = LF
    THEN SubSeq(text, 1, CHOOSE i \in 1..Len(text) :
                            text[i] = LF /\ \A j \in 1..(i - 1) : text[j] # LF)
    ELSE text

\* what a file system holds at the path of a directory
Directory == <<"<dir>">>

\* open(path, "r"): the content to read, or the failure raised
open_file(fs, p) ==
    IF p \notin DOMAIN fs THEN <<"raise", "FileNotFoundError">>
    ELSE IF fs[p] = Directory THEN <<"raise", "IsADirectoryError">>
    ELSE <<"return", fs[p]>>

read_txt_readline(fs, p) ==
    LET file == open_file(fs, p)
    IN  IF file[1] = "raise" THEN file
        ELSE <<"return", readline(translate_newlines(file[2]))>>

read_txt_default(fs, p) ==
    LET file == open_file(fs, p)
    IN  IF file[1] = "raise" THEN <<"return", <<>>>>
        ELSE <<"return", translate_newlines(file[2])>>

\* with open(path, "r") as file: return file.read()
read_txt(fs, p) ==
    LET file == open_file(fs, p)
    IN  IF file[1] = "raise" THEN file
        ELSE <<"return", translate_newlines(file[2])>>

-----------------------------------------------------------------------------
\* Specification of the calls of read_txt

FileChars == {"a", CR, LF}

FileContents == SeqsUpTo(FileChars, MaxFileLen)

InitRead ==
    /\ files \in {[p \in {"data/cv.txt", "data"} |-> IF p = "data" THEN Directory ELSE c] :
                      c \in FileContents}
    /\ path \in {"data/cv.txt", "data/missing.txt", "data"}
    /\ read_result = <<>>
    /\ msg = NoneMsg
    /\ term_result = <<>>
    /\ messages = <<>>
    /\ last_speaker = <<>>
    /\ selected = <<>>
    /\ n_messages = 0
    /\ status = "init"
    /\ recorded = 0

CallRead ==
    /\ read_result = <<>>
    /\ read_result' = read_txt(files, path)
    /\ UNCHANGED <<files, path, msg, term_result, messages, last_speaker, selected,
                   n_messages, status, recorded>>

NextRead == CallRead

SpecRead == InitRead /\ [][NextRead]_vars

\* path names an existing text file
IsTextFile == path \in DOMAIN files /\ files[path] # Directory

\* the positions of data that reading in text mode hands over: all but a "\n"
\* that directly follows a "\r"
Kept(data) == {i \in 1..Len(data) : ~ (data[i] = LF /\ i > 1 /\ data[i - 1] = CR)}

\* text is data with every line ending "\r\n" or "\r" replaced by "\n" and
\* every other character in place
SameUpToLineEndings(text, data) ==
    /\ Len(text) = Cardinality(Kept(data))
    /\ \A i \in Kept(data) :
          text[Cardinality({j \in Kept(data) : j =< i})] = (IF data[i] = CR THEN LF ELSE data[i])

\* C10 as stated: for an existing file read_txt returns the file's entire
\* content as one string, unchanged, and leaves the file as it is.
C10_Original ==
    (read_result # <<>> /\ IsTextFile)
    => read_result = <<"return", files[path]>>

\* C10 amended: for an existing file read_txt returns the file's entire
\* content as one string in which every line ending "\r\n" or "\r" has become
\* "\n" and nothing else has changed (so a file without "\r" is returned
\* unchanged), and it leaves the file as it is.
C10_ReadWholeFileUpToLineEndings ==
    [][ (read_result' # read_result /\ IsTextFile)
        => /\ read_result'[1] = "return"
           /\ SameUpToLineEndings(read_result'[2], files[path])
           /\ (\A i \in 1..Len(files[path]) : files[path][i] # CR)
                 => read_result'[2] = files[path]
           /\ files' = files ]_vars

\* a file of several lines without "\r" was returned whole
C10_Witness ==
    /\ IsTextFile
    /\ read_result = <<"return", files[path]>>
    /\ \E i \in 1..(Len(files[path]) - 1) : files[path][i] = LF

\* C11: when open fails (no file at the path, or a directory), read_txt
\* returns nothing and raises that same failure: no default string takes its
\* place, the failing call is made once and the files are left as they are.
C11_OpenFailurePropagates ==
    [][ (read_result' # read_result /\ ~ IsTextFile)
        => /\ read_result = <<>>
           /\ read_result'[1] = "raise"
           /\ path \notin DOMAIN files => read_result' = <<"raise", "FileNotFoundError">>
           /\ path \in DOMAIN files => read_result' = <<"raise", "IsADirectoryError">>
           /\ files' = files ]_vars

\* read_txt was called with a path that does not exist and has raised
C11_Witness ==
    /\ path \notin DOMAIN files
    /\ read_result = <<"raise", "FileNotFoundError">>

-----------------------------------------------------------------------------
\* 8 - Execution: the conversation started by initiate_chat

\* max_turns of initiate_chat
max_turns == 30

\* the message of the run
Request ==
    <<"R", "e", "c", "o", "m", "m", "e", "n", "d", " ", "c", "o", "u", "r", "s", "e", "s", " ",
      "f", "o", "r", " ", "t", "h", "e", " ", "p", "r", "o", "f", "i", "l", "e", " ",
      "d", "a", "t", "a", "/", "c", "v", ".", "t", "x", "t">>

\* texts a language model answers with: with and without the keyword
CONTINUE == <<"C", "O", "N", "T", "I", "N", "U", "E">>

TERMINATE == <<"T", "E", "R", "M", "I", "N", "A", "T", "E">>

LLMTexts ==
    { CONTINUE,
      <<"P", "y", "t", "h", "o", "n", ",", " ", "S", "Q", "L">>,
      TERMINATE,
      <<"O", "k", ".", " ", "T", "e", "r", "m", "i", "n", "a", "t", "e", "d", ".">> }

\* the tool_calls lists a language model answers with
LLMToolCalls ==
    {<<ToolCall("data/cv.txt"), ToolCall("data/courses.txt")>>, <<ToolCall("data/courses.txt")>>}

\* the data files of the run: a profile and a list of courses, the list with
\* and without the keyword in it
FileSystems ==
    { [p \in {"data/cv.txt", "data/courses.txt"} |->
          IF p = "data/cv.txt" THEN <<"C", "V", LF>> ELSE <<"N", "L", "P", CR, LF>>],
      [p \in {"data/cv.txt", "data/courses.txt"} |->
          IF p = "data/cv.txt" THEN <<"C", "V", LF>>
          ELSE <<"T", "e", "r", "m", "i", "n", "a", "t", "e", " ", "A", "I", LF>>] }

\* what the executor answers to one tool call
tool_output(fs, call) ==
    LET r == read_txt(fs, call.path)
    IN  IF r[1] = "return" THEN r[2] ELSE <<"E", "r", "r", "o", "r">>

RECURSIVE join(_)
join(texts) ==
    IF texts = <<>> THEN <<>>
    ELSE IF Len(texts) = 1 THEN texts[1]
    ELSE texts[1] \o <<LF, LF>> \o join(Tail(texts))

user_reply_no_execution(fs, last_message) ==
    [name |-> Executor, content |-> <<>>]

\* the reply of the User proxy (no language model, no human input): the
\* results of the tool calls of the last message, else the empty reply
user_reply(fs, last_message) ==
    LET calls == get(last_message, "tool_calls", <<>>)
        outputs == [i \in 1..Len(calls) |-> tool_output(fs, calls[i])]
    IN  IF truthy(calls)
        THEN [name |-> Executor, content |-> join(outputs), tool_responses |-> outputs]
        ELSE [name |-> Executor, content |-> <<>>]

\* the replies of an assistant agent: a text, or tool calls when read_txt is
\* registered for it
assistant_replies(a) ==
    {[name |-> a, content |-> c] : c \in LLMTexts}
    \cup (IF a \in Callers
          THEN {[name |-> a, content |-> <<>>, tool_calls |-> tc] : tc \in LLMToolCalls}
          ELSE {})

status_after_limit_only(m, n) ==
    IF n >= max_turns THEN "ended" ELSE "select"

status_after_nolimit(m, n) ==
    IF termination_message(m) THEN "ended" ELSE "select"

\* the position of the conversation after the n-th message m is appended
status_after(m, n) ==
    IF termination_message(m) \/ n >= max_turns THEN "ended" ELSE "select"

\* the last MaxHist messages of a transcript
Window(transcript) ==
    IF Len(transcript) > MaxHist
    THEN SubSeq(transcript, Len(transcript) - MaxHist + 1, Len(transcript))
    ELSE transcript

\* m is the i-th message of the run recorded in the notebook: the request of
\* User, two tool calls of the Courses recommender, their results from User,
\* an answer of the Courses recommender, and a text of the Resolution Checker
\* Agent with 'TERMINATE' in it
RecordedRun(i, m) ==
    \/ i = 1 /\ m = [name |-> User, content |-> Request]
    \/ i = 2 /\ m.name = CoursesRecommender
             /\ get(m, "tool_calls", <<>>)
                   = <<ToolCall("data/cv.txt"), ToolCall("data/courses.txt")>>
    \/ i = 3 /\ m.name = User
             /\ Len(get(m, "tool_responses", <<>>)) = 2
    \/ i = 4 /\ m.name = CoursesRecommender
             /\ ~ truthy(get(m, "tool_calls", <<>>))
             /\ ~ str_in(terminate, lower(m.content))
    \/ i = 5 /\ m.name = ResolutionChecker
             /\ str_in(TERMINATE, m.content)

\* groupchat.append followed by the manager's termination check
Appended(m, speaker) ==
    /\ recorded' = IF recorded = n_messages /\ RecordedRun(n_messages + 1, m)
                   THEN n_messages + 1
                   ELSE -1
    /\ messages' = Window(Append(messages, m))
    /\ n_messages' = n_messages + 1
    /\ last_speaker' = speaker
    /\ msg' = m
    /\ term_result' = <<"return", termination_message(m)>>
    /\ status' = status_after(m, n_messages + 1)

Init ==
    /\ messages = <<>>
    /\ n_messages = 0
    /\ last_speaker = <<>>
    /\ selected = <<>>
    /\ status = "init"
    /\ msg = NoneMsg
    /\ term_result = <<>>
    /\ files \in FileSystems
    /\ path = ""
    /\ read_result = <<>>
    /\ recorded = 0

\* user_proxy.initiate_chat(recipient=manager, message=message, max_turns=30)
InitiateChat ==
    /\ status = "init"
    /\ Appended([name |-> User, content |-> Request], User)
    /\ UNCHANGED <<selected, files, path, read_result>>

\* the manager asks custom_speaker_selection for the next speaker
SelectSpeaker ==
    /\ status = "select"
    /\ selected' = custom_speaker_selection(last_speaker, messages, agents)
    /\ status' = IF selected'[1] = "return" THEN "speak" ELSE "failed"
    /\ UNCHANGED <<messages, n_messages, last_speaker, msg, term_result, files, path,
                   read_result, recorded>>

MaySpeak_no_repeat(a) ==
    /\ a \in AgentNames
    /\ selected = <<"return", a>> \/ (selected = <<"return", auto>> /\ a # last_speaker)

\* the agents the selection allows to speak: the one returned, any one of the
\* group on 'auto' (allow_repeat_speaker=True)
MaySpeak(a) ==
    /\ a \in AgentNames
    /\ selected = <<"return", a>> \/ selected = <<"return", auto>>

\* the User proxy speaks
UserTurn ==
    /\ status = "speak"
    /\ MaySpeak(User)
    /\ Appended(user_reply(files, messages[Len(messages)]), User)
    /\ UNCHANGED <<selected, files, path, read_result>>

\* one of the four assistant agents speaks
AssistantTurn ==
    /\ status = "speak"
    /\ \E a \in AgentNames \ {User} :
          /\ MaySpeak(a)
          /\ \E m \in assistant_replies(a) : Appended(m, a)
    /\ UNCHANGED <<selected, files, path, read_result>>

Next == InitiateChat \/ SelectSpeaker \/ UserTurn \/ AssistantTurn

Spec == Init /\ [][Next]_vars

-----------------------------------------------------------------------------
\* Properties of the conversation

\* the last message of the transcript is a termination message
TermLast == n_messages > 0 /\ ContainsKeywordAnyCase(LastMessage.content)

HasToolResult(m) == "tool_responses" \in DOMAIN m

CarriesToolCall(m) == "tool_calls" \in DOMAIN m /\ Len(m.tool_calls) > 0

\* C3 as stated: with no tool call in the last message and a task agent as
\* penultimate speaker, the selection returns that penultimate speaker,
\* whoever the last speaker is.
C3_Original ==
    (status = "speak" /\ ~ HasToolCall /\ HasPenultimate /\ PenultimateName \in TaskAgents)
    => selected = <<"return", PenultimateName>>

\* C3 amended: with no tool call in the last message, User as last speaker
\* and a task agent as penultimate speaker, the selection returns that
\* penultimate speaker.
C3_UserAfterTaskAgentRoutesBack ==
    ( /\ status = "speak"
      /\ ~ HasToolCall
      /\ last_speaker = User
      /\ HasPenultimate
      /\ PenultimateName \in TaskAgents )
    => selected = <<"return", PenultimateName>>

\* User has returned a tool result to the CV Analyser, which is selected again
C3_Witness ==
    /\ status = "speak"
    /\ last_speaker = User
    /\ HasToolResult(LastMessage)
    /\ HasPenultimate
    /\ PenultimateName = CVAnalyser
    /\ selected = <<"return", CVAnalyser>>

Progress == 2 * n_messages + (IF status = "speak" THEN 1 ELSE 0)

C9_ToolCallsByTaskAgentsResultsByUser ==
    \A i \in 1..Len(messages) :
        LET m == messages[i]
        IN  /\ CarriesToolCall(m) => m.name \in TaskAgents
            /\ HasToolResult(m)
                  => /\ m.name = User
                     /\ i > 1 \/ n_messages > Len(messages)
                     /\ i > 1 => /\ CarriesToolCall(messages[i - 1])
                                 /\ Len(m.tool_responses) = Len(messages[i - 1].tool_calls)
            /\ m.name = ResolutionChecker => (~ CarriesToolCall(m) /\ ~ HasToolResult(m))
            /\ (i > 1 /\ CarriesToolCall(messages[i - 1]))
                  => (m.name = User /\ HasToolResult(m))

\* User has executed the two tool calls of the Courses recommender
C9_Witness ==
    /\ Len(messages) > 1
    /\ HasToolResult(LastMessage)
    /\ Len(LastMessage.tool_responses) = 2
    /\ last_speaker = User
    /\ PenultimateName = CoursesRecommender
    /\ CarriesToolCall(messages[Len(messages) - 1])

-----------------------------------------------------------------------------
\* Transcripts that share three facts with the one in messages: the last
\* speaker, whether the last message carries a tool call, and the penultimate
\* speaker (or that there is none).  Older messages, texts and the calls
\* themselves differ.

PeerTexts == {CONTINUE, TERMINATE}

PeerOlder ==
    { <<>>,
      <<[name |-> User, content |-> Request],
        [name |-> CVAnalyser, content |-> TERMINATE, tool_calls |-> <<ToolCall("data/cv.txt")>>]>> }

PeerPenultimates ==
    { [name |-> PenultimateName, content |-> TERMINATE],
      [name |-> PenultimateName, content |-> <<>>,
       tool_calls |-> <<ToolCall("data/courses.txt")>>] }

PeerLasts ==
    IF HasToolCall
    THEN {[name |-> last_speaker, content |-> x, tool_calls |-> <<ToolCall("data/courses.txt")>>] :
             x \in PeerTexts}
    ELSE {[name |-> last_speaker, content |-> x] : x \in PeerTexts}
         \cup {[name |-> last_speaker, content |-> TERMINATE, tool_calls |-> <<>>]}

Peers ==
    IF HasPenultimate
    THEN {o \o <<p, l>> : o \in PeerOlder, p \in PeerPenultimates, l \in PeerLasts}
    ELSE {<<l>> : l \in PeerLasts}

\* C12: the result of custom_speaker_selection depends on nothing but the
\* last speaker's name, whether the last message carries a tool call, and the
\* penultimate speaker's name or its absence: every transcript that shares
\* these three facts with the one selected on, of whatever length and with
\* whatever older messages and texts, gets the same result.
C12_SelectionIsReactive ==
    selected # <<>> =>
        \A peer \in Peers : custom_speaker_selection(last_speaker, peer, agents) = selected

\* a three-message transcript routed back to the CV Analyser: its peers are
\* shorter and longer and start with other speakers
C12_Witness ==
    /\ selected = <<"return", CVAnalyser>>
    /\ Len(messages) = 3
    /\ messages[1].name = SkillsExtractor
    /\ CarriesToolCall(messages[2])

-----------------------------------------------------------------------------
\* The tool round trip

\* the steps of the round trip: after a message with tool calls User is
\* selected and appends the results of these calls, read_txt of each path;
\* after a tool result the agent that made the calls is selected and appends
\* the next message
RoundTripSteps ==
    [][ /\ (status = "speak" /\ CarriesToolCall(LastMessage))
           => /\ LastMessage.name \in TaskAgents
              /\ selected = <<"return", User>>
              /\ last_speaker' = User
              /\ messages'[Len(messages')].name = User
              /\ HasToolResult(messages'[Len(messages')])
              /\ messages'[Len(messages')].tool_responses
                    = [i \in 1..Len(LastMessage.tool_calls) |->
                          read_txt(files, LastMessage.tool_calls[i].path)[2]]
        /\ (status = "speak" /\ HasToolResult(LastMessage))
           => /\ HasPenultimate
              /\ PenultimateName \in TaskAgents
              /\ CarriesToolCall(messages[Len(messages) - 1])
              /\ selected = <<"return", PenultimateName>>
              /\ last_speaker' = PenultimateName
              /\ messages'[Len(messages')].name = PenultimateName
      ]_vars

\* a message with tool calls that has not ended the conversation is followed
\* by a selection
ToolCallGoesOn ==
    (n_messages > 0 /\ CarriesToolCall(LastMessage) /\ status # "ended")
    => status \in {"select", "speak"}

-----------------------------------------------------------------------------
\* The run recorded in the notebook

\* C14: the recorded run is a behaviour of the system and it is complete.
\* While the transcript is the start of the recorded run and its last message
\* is no termination message the conversation goes on, and the selection
\* allows the speaker the run has next: the automatic one after the request
\* (the Courses recommender is one of its choices), User after the tool
\* calls, the Courses recommender after the tool result, the Resolution
\* Checker Agent after the answer.  Once the transcript is the whole recorded
\* run, of five messages, the conversation has ended with the message of the
\* Resolution Checker Agent as the last one, and nothing happens any more.
C14_RecordedRunIsComplete ==
    /\ []((recorded \in 1..4 /\ ~ TermLast)
            => /\ n_messages = recorded
               /\ status \in {"select", "speak"}
               /\ status = "speak"
                    => /\ recorded = 1 => (selected = <<"return", auto>>
                                            /\ MaySpeak(CoursesRecommender))
                       /\ recorded = 2 => selected = <<"return", User>>
                       /\ recorded = 3 => selected = <<"return", CoursesRecommender>>
                       /\ recorded = 4 => selected = <<"return", ResolutionChecker>>)
    /\ [](recorded = 5
            => /\ status = "ended"
               /\ n_messages = 5
               /\ last_speaker = ResolutionChecker
               /\ LastMessage.name = ResolutionChecker
               /\ TermLast
               /\ PenultimateName = CoursesRecommender
               /\ messages[Len(messages) - 2].name = User
               /\ HasToolResult(messages[Len(messages) - 2]))
    /\ [][recorded # 5]_vars

\* the recorded run has happened
C14_Witness ==
    /\ recorded = 5
    /\ status = "ended"
    /\ messages[Len(messages)].name = ResolutionChecker

-----------------------------------------------------------------------------
\* After the Resolution Checker Agent

-----------------------------------------------------------------------------
\* The selection on the transcripts of a run

\* C16: whenever the manager selects a speaker the transcript is not empty
\* and each of its messages is named after one of the five agents of the
\* group; custom_speaker_selection then returns 'auto' or an agent of
\* groupchat.agents: it raises nothing (no IndexError, no KeyError, no
\* StopIteration) and every result it has given is such a value.
C16_SelectionNeverFails ==
    /\ status # "failed"
    /\ status \in {"select", "speak"}
         => /\ Len(messages) > 0
            /\ \A i \in 1..Len(messages) :
                  "name" \in DOMAIN messages[i] /\ messages[i].name \in AgentNames
            /\ last_speaker = LastMessage.name
            /\ LET r == custom_speaker_selection(last_speaker, messages, agents)
               IN  /\ r[1] = "return"
                   /\ r[2] \in AgentNames \cup {auto}
    /\ selected # <<>>
         => /\ Len(selected) = 2
            /\ selected[1] = "return"
            /\ selected[2] \in AgentNames \cup {auto}

\* on a transcript of more than three messages the selection has returned
\* an agent of the group: the Resolution Checker Agent, after an answer of the
\* Courses recommender
C16_Witness ==
    /\ status = "speak"
    /\ selected = <<"return", ResolutionChecker>>
    /\ n_messages > 3
    /\ last_speaker = CoursesRecommender

====
